---- MODULE Spec2Model ----
(***************************************************************************)
(* Model of the transport/traffic ETL pipeline (scripts/etl_pipeline.py),  *)
(* its scheduled entry point (scripts/airflow_transport_etl_dag.py) and    *)
(* the destinations it writes.                                              *)
(*                                                                         *)
(* A DataFrame is [columns |-> set of names, rows |-> sequence of records  *)
(* whose domain is columns].  A cell is a tagged record: a text cell, a    *)
(* missing cell (NaN / None / NaT), a parsed timestamp (minutes since      *)
(* midnight of the one day the inputs cover) or a number (in tenths).      *)
(***************************************************************************)
EXTENDS Integers, Sequences, FiniteSets, TLC

VARIABLES
    raw,         \* the two raw sources as they are on disk / at the endpoint
    entry,       \* how runs are started: "script" (__main__) or "dag" (Airflow task)
    file,        \* processed/cleaned_unified_data.csv, a sequence of lines
    table,       \* the relational table transport_traffic
    report,      \* reports/summary_by_route.csv, a sequence of lines
    log,         \* the tail window of logs/etl.log
    pc,          \* per run: the statement of run_pipeline / the handler it is at
    pub_df,      \* per run: local pub_df
    traf_df,     \* per run: local traf_df
    unified_df,  \* per run: local unified_df
    summary,     \* per run: local summary of create_summary_report
    err,         \* per run: the exception raised inside run_pipeline
    exitErr,     \* per run: the exception the process / task ends with
    captured,    \* per run: what the failure handler captured (error, log tail)
    notified,    \* per run: what became of the notification
    trace,       \* per run: the stages entered, in order (history)
    written,     \* per run: the destinations written, in order (history)
    pre,         \* per run: the destinations as they were when the run started (history)
    committer    \* per destination: the run whose write to it committed last (history)

vars == <<raw, entry, file, table, report, log, pc, pub_df, traf_df, unified_df,
          summary, err, exitErr, captured, notified, trace, written, pre, committer>>

-----------------------------------------------------------------------------
(* Bounds *)

\* longest raw source, in rows
MaxRows == 2
\* number of log lines the tail window keeps (stands for the 10000 characters)
TailMax == 3

Runs == {1, 2}

-----------------------------------------------------------------------------
(* Cells *)

Str(s) == [k |-> "str", s |-> s]
Num(n) == [k |-> "num", n |-> n]
Ts(t)  == [k |-> "ts", t |-> t]
NA     == [k |-> "na"]

isna(c) == c.k = "na"

\* the texts pandas.to_datetime parses, with the instant each denotes
TimeTable ==
    ("2025-01-01 08:10:00" :> 490) @@ ("2025-01-01 08:45:00" :> 525) @@
    ("2025-01-01 08:50:00" :> 530) @@ ("2025-01-01 09:05:00" :> 545)

\* the texts pandas.to_numeric parses, with the number each denotes (tenths)
NumTable ==
    ("120" :> 1200) @@ ("80" :> 800) @@ ("60" :> 600) @@
    ("18.5" :> 185) @@ ("25" :> 250) @@ ("0.7" :> 7) @@ ("0.4" :> 4)

\* pd.to_datetime(x, errors="coerce") on one cell
to_datetime(c) ==
    IF c.k = "ts" THEN c
    ELSE IF c.k = "str" /\ c.s \in DOMAIN TimeTable THEN Ts(TimeTable[c.s])
    ELSE NA

\* pd.to_numeric(x, errors="coerce") on one cell
to_numeric(c) ==
    IF c.k = "num" THEN c
    ELSE IF c.k = "str" /\ c.s \in DOMAIN NumTable THEN Num(NumTable[c.s])
    ELSE NA

\* Series.dt.floor("H") on one cell
MinutesPerHour == 60
\* (variant: rounding to the nearest hour, as the comment in the code words it)
dt_floor_H_Nearest(c) == Ts(((c.t + 30) \div MinutesPerHour) * MinutesPerHour)
dt_floor_H(c) == Ts((c.t \div MinutesPerHour) * MinutesPerHour)

-----------------------------------------------------------------------------
(* DataFrames *)

DataFrame(cols, rows) == [columns |-> cols, rows |-> rows]
EmptyFrame == DataFrame({}, <<>>)

\* df.dropna(subset=[col])
dropna(df, col) ==
    LET keep(r) == ~isna(r[col])
    IN  [df EXCEPT !.rows = SelectSeq(df.rows, keep)]

\* df[col] = pd.to_datetime(df[col], errors="coerce")
assign_datetime(df, col) ==
    [df EXCEPT !.rows =
        [i \in 1..Len(df.rows) |-> [df.rows[i] EXCEPT ![col] = to_datetime(@)]]]

\* df[col] = pd.to_numeric(df[col], errors="coerce")
assign_numeric(df, col) ==
    [df EXCEPT !.rows =
        [i \in 1..Len(df.rows) |-> [df.rows[i] EXCEPT ![col] = to_numeric(@)]]]

\* df.rename(columns={old: new})
rename(df, old, new) ==
    IF old \notin df.columns THEN df
    ELSE LET cols == (df.columns \ {old}) \cup {new}
             ren(r) == [c \in cols |-> IF c = new THEN r[old] ELSE r[c]]
         IN  DataFrame(cols, [i \in 1..Len(df.rows) |-> ren(df.rows[i])])

RECURSIVE Flatten(_)
Flatten(ss) == IF ss = <<>> THEN <<>> ELSE Head(ss) \o Flatten(Tail(ss))

-----------------------------------------------------------------------------
(* Source readers *)

PublicRequired  == {"route_id", "city", "bus_stop", "ridership", "timing"}
\* (variant: avg_speed left out of the required fields)
TrafficRequired_NoSpeed == {"route_id", "congestion_index", "timestamp"}
TrafficRequired == {"route_id", "avg_speed", "congestion_index", "timestamp"}

missing_cols(required, df) == required \ df.columns

\* load_public_transport_csv after the read: the frame it returns
load_public_transport_csv(df) == rename(df, "timing", "timestamp")

\* load_traffic_data after the read: the frame it returns
load_traffic_data(df) == df

-----------------------------------------------------------------------------
(* Cleaner *)

NumericCols == <<"ridership", "avg_speed", "congestion_index">>

RECURSIVE coerce_numeric(_, _)
coerce_numeric(df, cols) ==
    IF cols = <<>> THEN df
    ELSE coerce_numeric(
             IF Head(cols) \in df.columns THEN assign_numeric(df, Head(cols)) ELSE df,
             Tail(cols))

RECURSIVE dropna_each(_, _)
dropna_each(df, cols) ==
    IF cols = <<>> THEN df
    ELSE dropna_each(
             IF Head(cols) \in df.columns THEN dropna(df, Head(cols)) ELSE df,
             Tail(cols))

\* (variant: congestion_index left out of the final dropna loop)
validate_and_clean_KeepsBadCongestion(df, time_col) ==
    LET d1 == dropna(df, time_col)
        d2 == assign_datetime(d1, time_col)
        d3 == dropna(d2, time_col)
        d4 == coerce_numeric(d3, NumericCols)
    IN  dropna_each(d4, <<"ridership", "avg_speed">>)

validate_and_clean(df, time_col) ==
    LET d1 == dropna(df, time_col)
        d2 == assign_datetime(d1, time_col)
        d3 == dropna(d2, time_col)
        d4 == coerce_numeric(d3, NumericCols)
    IN  dropna_each(d4, NumericCols)

-----------------------------------------------------------------------------
(* Temporal aligner / joiner *)

JoinKeys == {"route_id", "timestamp_hour"}

\* pd.merge(left, right, on=JoinKeys, how="inner", suffixes=("_public", "_traffic"))
merge(left, right) ==
    LET overlap == (left.columns \cap right.columns) \ JoinKeys
        lname(c) == IF c \in overlap THEN c \o "_public" ELSE c
        rname(c) == IF c \in overlap THEN c \o "_traffic" ELSE c
        lcols == {lname(c) : c \in left.columns \ JoinKeys}
        rcols == {rname(c) : c \in right.columns \ JoinKeys}
        cols == JoinKeys \cup lcols \cup rcols
        row(p, t) ==
            [c \in cols |->
                IF c \in JoinKeys THEN p[c]
                ELSE IF c \in lcols
                     THEN p[CHOOSE d \in left.columns \ JoinKeys : lname(d) = c]
                     ELSE t[CHOOSE d \in right.columns \ JoinKeys : rname(d) = c]]
        matches(p, t) == \A c \in JoinKeys : p[c] = t[c]
        partners(p) ==
            LET hit(t) == matches(p, t)
                ts == SelectSeq(right.rows, hit)
            IN  [j \in 1..Len(ts) |-> row(p, ts[j])]
    IN  DataFrame(cols, Flatten([i \in 1..Len(left.rows) |-> partners(left.rows[i])]))

\* df["timestamp_hour"] = df["timestamp"].dt.floor("H")
with_timestamp_hour(df) ==
    LET cols == df.columns \cup {"timestamp_hour"}
        ext(r) == [c \in cols |-> IF c = "timestamp_hour" THEN dt_floor_H(r.timestamp)
                                                           ELSE r[c]]
    IN  DataFrame(cols, [i \in 1..Len(df.rows) |-> ext(df.rows[i])])

build_unified_table(pub, traf) ==
    rename(merge(with_timestamp_hour(pub), with_timestamp_hour(traf)),
           "timestamp_hour", "event_hour")

-----------------------------------------------------------------------------
(* Sink *)

\* the lines DataFrame.to_csv(path, index=False) writes: the header, then the rows
CsvHeader(cols) == [k |-> "header", cols |-> cols]
csv_lines(df) == <<CsvHeader(df.columns)>> \o df.rows

\* open(path, "w"): the file is created or truncated
open_truncate(old) == <<>>

\* write() of a handle opened at offset 0: the bytes land over whatever is there
write_at_start(old, lines) == lines \o SubSeq(old, Len(lines) + 1, Len(old))

NoTable == EmptyFrame

\* df.to_sql(table_name, conn, if_exists="replace", index=False) where the transaction of
\* engine.begin() covers the DROP TABLE, the CREATE TABLE and the INSERTs
\* (variant: if_exists="append")
to_sql_append(old, df) == DataFrame(df.columns, old.rows \o df.rows)
to_sql_replace(old, df) == df

\* the same call where the driver or the server commits DDL at once (pysqlite's default
\* transaction handling, MySQL): first the table is dropped and created anew, empty ...
to_sql_drop_create(old, df) == DataFrame(df.columns, <<>>)

\* ... then the rows are inserted, into the table as it is by then, and committed
to_sql_insert(old, df) == DataFrame(old.columns, old.rows \o df.rows)

GroupKeys == <<"route_id", "city_public", "bus_stop">>
ValueCols == {"ridership", "congestion_index"}

\* the order Python gives the texts that occur in the key columns
TextOrder == <<"Delhi", "Pune", "R1", "R2", "S1", "S2">>
TextRank(s) == CHOOSE i \in 1..Len(TextOrder) : TextOrder[i] = s

RECURSIVE KeyLeq(_, _)
KeyLeq(a, b) ==
    IF a = <<>> THEN TRUE
    ELSE IF Head(a) = Head(b) THEN KeyLeq(Tail(a), Tail(b))
    ELSE TextRank(Head(a)) < TextRank(Head(b))

RECURSIVE SortKeys(_)
SortKeys(S) ==
    IF S = {} THEN <<>>
    ELSE LET m == CHOOSE x \in S : \A y \in S : KeyLeq(x, y)
         IN  <<m>> \o SortKeys(S \ {m})

RECURSIVE SumCol(_, _)
SumCol(rows, col) ==
    IF rows = <<>> THEN 0 ELSE Head(rows)[col].n + SumCol(Tail(rows), col)

Mean(rows, col) == [k |-> "mean", sum |-> SumCol(rows, col), cnt |-> Len(rows)]

\* whether df.groupby(GroupKeys)[ValueCols] finds its columns (else KeyError)
groupby_columns_present(df) ==
    {GroupKeys[i] : i \in 1..Len(GroupKeys)} \cup ValueCols \subseteq df.columns

\* the summary frame of create_summary_report (groups sorted by key, NA keys dropped)
summary_frame(df) ==
    LET keyed(r) == \A i \in 1..Len(GroupKeys) : ~isna(r[GroupKeys[i]])
        rows == SelectSeq(df.rows, keyed)
        key(r) == [i \in 1..Len(GroupKeys) |-> r[GroupKeys[i]].s]
        keys == {key(rows[i]) : i \in 1..Len(rows)}
        group(kk) == LET in(r) == key(r) = kk IN SelectSeq(rows, in)
        out(kk) ==
            [route_id |-> Str(kk[1]), city_public |-> Str(kk[2]), bus_stop |-> Str(kk[3]),
             avg_ridership |-> Mean(group(kk), "ridership"),
             avg_congestion_index |-> Mean(group(kk), "congestion_index")]
        sorted == SortKeys(keys)
    IN  DataFrame({"route_id", "city_public", "bus_stop", "avg_ridership",
                   "avg_congestion_index"},
                  [i \in 1..Len(sorted) |-> out(sorted[i])])

-----------------------------------------------------------------------------
(* Raw inputs *)

PubRow(route, city, stop, rid, timing) ==
    [route_id |-> Str(route), city |-> Str(city), bus_stop |-> Str(stop),
     ridership |-> rid, timing |-> timing]

TrafRow(route, speed, cong, ts) ==
    [route_id |-> Str(route), avg_speed |-> speed, congestion_index |-> cong,
     timestamp |-> ts]

P1 == PubRow("R1", "Pune", "S1", Str("120"), Str("2025-01-01 08:10:00"))
P2 == PubRow("R1", "Pune", "S1", Str("80"), Str("2025-01-01 08:50:00"))
P3 == PubRow("R2", "Delhi", "S2", Str("not_a_number"), Str("2025-01-01 08:10:00"))
P4 == PubRow("R2", "Delhi", "S2", Str("60"), Str("garbage"))
P5 == PubRow("R2", "Delhi", "S2", Str("60"), NA)

T1 == TrafRow("R1", Str("18.5"), Str("0.7"), Str("2025-01-01 08:45:00"))
T2 == TrafRow("R1", Num(250), Num(4), Str("2025-01-01 09:05:00"))
T3 == TrafRow("R2", Str("25"), Str("0.4"), Str("2025-01-01 08:10:00"))
T4 == TrafRow("R2", Str("x"), Str("0.7"), Str("2025-01-01 08:10:00"))
T5 == TrafRow("R1", Str("18.5"), NA, Str("2025-01-01 08:45:00"))

PubCols == DOMAIN P1
TrafCols == DOMAIN T1

SeqsUpTo(S, n) == UNION {[1..m -> S] : m \in 0..n}

\* a traffic feed that also carries a city field
WithCity(df) ==
    LET cols == df.columns \cup {"city"}
        ext(r) == [c \in cols |-> IF c = "city" THEN Str("Pune") ELSE r[c]]
    IN  DataFrame(cols, [i \in 1..Len(df.rows) |-> ext(df.rows[i])])

DropColumn(df, col) ==
    LET cols == df.columns \ {col}
    IN  DataFrame(cols, [i \in 1..Len(df.rows) |-> [c \in cols |-> df.rows[i][c]]])

Source(pub, traf) == [pub |-> pub, traf |-> traf]

\* sources with every required field, the traffic feed with or without a city field
GoodInputs(pubs, trafs, n) ==
    {Source(DataFrame(PubCols, p), t) :
        p \in SeqsUpTo(pubs, n),
        t \in UNION {{DataFrame(TrafCols, x), WithCity(DataFrame(TrafCols, x))} :
                        x \in SeqsUpTo(trafs, n)}}

\* sources that lack a required field
BadInputs(pubs, trafs) ==
    LET g == GoodInputs(pubs, trafs, 1)
    IN  {Source(DropColumn(x.pub, "timing"), x.traf) : x \in g}
        \cup {Source(x.pub, DropColumn(x.traf, "avg_speed")) : x \in g}

PipelineInputs == GoodInputs({P1, P3}, {T1, T3}, MaxRows) \cup BadInputs({P1}, {T1})

StageInputs ==
    GoodInputs({P1, P2, P3, P4, P5}, {T1, T2, T3, T4, T5}, MaxRows)
    \cup BadInputs({P1}, {T1})

OverlapInputs ==
    {Source(DataFrame(PubCols, <<P1, P1>>), WithCity(DataFrame(TrafCols, <<T1>>))),
     Source(DataFrame(PubCols, <<P2>>), WithCity(DataFrame(TrafCols, <<T1>>)))}

\* what an earlier run on older data left in the destinations
OldUnified ==
    build_unified_table(
        validate_and_clean(load_public_transport_csv(DataFrame(PubCols, <<P2>>)), "timestamp"),
        validate_and_clean(load_traffic_data(WithCity(DataFrame(TrafCols, <<T1, T1>>))),
                           "timestamp"))

Dests(f, t, rp) == [file |-> f, table |-> t, report |-> rp]
NoDests == Dests(<<>>, NoTable, <<>>)
OldDests == Dests(csv_lines(OldUnified), OldUnified, csv_lines(summary_frame(OldUnified)))
PriorContents == {NoDests, OldDests}

-----------------------------------------------------------------------------
(* Orchestrator state *)

Stage(p) ==
    CASE p = "START" -> "START"
      [] p \in {"read_public", "read_traffic"} -> "read_sources"
      [] p = "clean_both" -> "clean_both"
      [] p = "join" -> "join"
      [] p \in {"to_csv_open", "to_csv_write", "load_to_database", "to_sql_insert",
                "summary_groupby", "summary_open", "summary_write"} -> "persist"
      [] p = "DONE" -> "DONE"
      [] p \in {"except", "FAILED"} -> "FAILED"

\* the statement run_pipeline executes after statement p
\* (variant: the cleaner called again after the join)
NextPc_BackEdge(p) ==
    CASE p = "START" -> "read_public"
      [] p = "read_public" -> "read_traffic"
      [] p = "read_traffic" -> "clean_both"
      [] p = "clean_both" -> "join"
      [] p = "join" -> "clean_both"
      [] OTHER -> "DONE"

\* (variant: load_to_database called before to_csv)
NextPc_TableFirst(p) ==
    CASE p = "START" -> "read_public"
      [] p = "read_public" -> "read_traffic"
      [] p = "read_traffic" -> "clean_both"
      [] p = "clean_both" -> "join"
      [] p = "join" -> "load_to_database"
      [] p = "load_to_database" -> "to_csv_open"
      [] p = "to_sql_insert" -> "to_csv_open"
      [] p = "to_csv_open" -> "to_csv_write"
      [] p = "to_csv_write" -> "summary_groupby"
      [] p = "summary_groupby" -> "summary_open"
      [] p = "summary_open" -> "summary_write"
      [] p = "summary_write" -> "DONE"

NextPc(p) ==
    CASE p = "START" -> "read_public"
      [] p = "read_public" -> "read_traffic"
      [] p = "read_traffic" -> "clean_both"
      [] p = "clean_both" -> "join"
      [] p = "join" -> "to_csv_open"
      [] p = "to_csv_open" -> "to_csv_write"
      [] p = "to_csv_write" -> "load_to_database"
      [] p = "load_to_database" -> "summary_groupby"
      [] p = "to_sql_insert" -> "summary_groupby"
      [] p = "summary_groupby" -> "summary_open"
      [] p = "summary_open" -> "summary_write"
      [] p = "summary_write" -> "DONE"

Terminated(r) == pc[r] \in {"DONE", "FAILED"}

NoCapture == [error |-> "none", tail |-> <<>>]

\* logger.info / warning / exception: the lines appended, seen through the tail window
tail_of(lines) ==
    IF Len(lines) > TailMax THEN SubSeq(lines, Len(lines) - TailMax + 1, Len(lines))
    ELSE lines

Log(lines) == log' = tail_of(log \o lines)

Goto(r, p) ==
    /\ pc' = [pc EXCEPT ![r] = p]
    /\ trace' = [trace EXCEPT ![r] =
                    IF Stage(p) = Stage(pc[r]) THEN @ ELSE Append(@, Stage(p))]

\* an exception leaves run_pipeline
Raise(r, e) ==
    /\ err' = [err EXCEPT ![r] = e]
    /\ Goto(r, "except")

Wrote(r, dest) == written' = [written EXCEPT ![r] = Append(@, dest)]

InitOn(inputs, entries, priors) ==
    /\ raw \in inputs
    /\ entry \in entries
    /\ \E d \in priors : file = d.file /\ table = d.table /\ report = d.report
    /\ log = <<>>
    /\ pc = [r \in Runs |-> "START"]
    /\ pub_df = [r \in Runs |-> EmptyFrame]
    /\ traf_df = [r \in Runs |-> EmptyFrame]
    /\ unified_df = [r \in Runs |-> EmptyFrame]
    /\ summary = [r \in Runs |-> EmptyFrame]
    /\ err = [r \in Runs |-> "none"]
    /\ exitErr = [r \in Runs |-> "none"]
    /\ captured = [r \in Runs |-> NoCapture]
    /\ notified = [r \in Runs |-> "not_invoked"]
    /\ trace = [r \in Runs |-> <<"START">>]
    /\ written = [r \in Runs |-> <<>>]
    /\ pre = [r \in Runs |-> NoDests]
    /\ committer = [file |-> 0, table |-> 0, report |-> 0]

-----------------------------------------------------------------------------
(* run_pipeline, statement by statement *)

\* logger.info("Starting ETL pipeline"); maybe_git_pull() (never fatal)
StartRun(r) ==
    /\ pc[r] = "START"
    /\ \E pull \in BOOLEAN :
          Log(<<"Starting ETL pipeline">>
              \o IF pull THEN <<"Running git pull for latest data and code">> ELSE <<>>)
    /\ pre' = [pre EXCEPT ![r] = Dests(file, table, report)]
    /\ Goto(r, NextPc(pc[r]))
    /\ UNCHANGED <<committer, raw, entry, file, table, report, pub_df, traf_df, unified_df, summary,
                   err, exitErr, captured, notified, written>>

\* pub_df = load_public_transport_csv(public_csv), every required column present
LoadPublic(r) ==
    /\ pc[r] = "read_public"
    /\ missing_cols(PublicRequired, raw.pub) = {}
    /\ pub_df' = [pub_df EXCEPT ![r] = load_public_transport_csv(raw.pub)]
    /\ Log(<<"Loading public transport data", "Loaded public transport records">>)
    /\ Goto(r, NextPc(pc[r]))
    /\ UNCHANGED <<committer, raw, entry, file, table, report, traf_df, unified_df, summary,
                   err, exitErr, captured, notified, written, pre>>

\* load_public_transport_csv raises ValueError: a required column is missing
LoadPublicSchemaViolation(r) ==
    /\ pc[r] = "read_public"
    /\ missing_cols(PublicRequired, raw.pub) # {}
    /\ Raise(r, "ValueError")
    /\ Log(<<"Loading public transport data">>)
    /\ UNCHANGED <<committer, raw, entry, file, table, report, pub_df, traf_df, unified_df, summary,
                   exitErr, captured, notified, written, pre>>

\* traf_df = load_traffic_data(traffic_json), every required field present
LoadTraffic(r) ==
    /\ pc[r] = "read_traffic"
    /\ missing_cols(TrafficRequired, raw.traf) = {}
    /\ traf_df' = [traf_df EXCEPT ![r] = load_traffic_data(raw.traf)]
    /\ Log(<<"Loading traffic sensor data", "Loaded traffic sensor records">>)
    /\ Goto(r, NextPc(pc[r]))
    /\ UNCHANGED <<committer, raw, entry, file, table, report, pub_df, unified_df, summary,
                   err, exitErr, captured, notified, written, pre>>

\* load_traffic_data raises ValueError: a required field is missing
LoadTrafficSchemaViolation(r) ==
    /\ pc[r] = "read_traffic"
    /\ missing_cols(TrafficRequired, raw.traf) # {}
    /\ Raise(r, "ValueError")
    /\ Log(<<"Loading traffic sensor data">>)
    /\ UNCHANGED <<committer, raw, entry, file, table, report, pub_df, traf_df, unified_df, summary,
                   exitErr, captured, notified, written, pre>>

\* pub_df = validate_and_clean(pub_df, "timestamp"); the same for traf_df
CleanBoth(r) ==
    /\ pc[r] = "clean_both"
    /\ pub_df' = [pub_df EXCEPT ![r] = validate_and_clean(@, "timestamp")]
    /\ traf_df' = [traf_df EXCEPT ![r] = validate_and_clean(@, "timestamp")]
    /\ Log(<<"Validating and cleaning datasets">>)
    /\ Goto(r, NextPc(pc[r]))
    /\ UNCHANGED <<committer, raw, entry, file, table, report, unified_df, summary,
                   err, exitErr, captured, notified, written, pre>>

\* unified_df = build_unified_table(pub_df, traf_df), which also adds timestamp_hour
\* to both of its arguments
Join(r) ==
    /\ pc[r] = "join"
    /\ unified_df' = [unified_df EXCEPT ![r] = build_unified_table(pub_df[r], traf_df[r])]
    /\ pub_df' = [pub_df EXCEPT ![r] = with_timestamp_hour(@)]
    /\ traf_df' = [traf_df EXCEPT ![r] = with_timestamp_hour(@)]
    /\ Log(<<"Building unified table", "Unified table has rows">>)
    /\ Goto(r, NextPc(pc[r]))
    /\ UNCHANGED <<committer, raw, entry, file, table, report, summary,
                   err, exitErr, captured, notified, written, pre>>

\* unified_df.to_csv(processed_csv, index=False): the file is opened for writing
ToCsvOpen(r) ==
    /\ pc[r] = "to_csv_open"
    /\ file' = open_truncate(file)
    /\ Log(<<"Saving cleaned unified dataset to CSV">>)
    /\ Goto(r, NextPc(pc[r]))
    /\ UNCHANGED <<committer, raw, entry, table, report, pub_df, traf_df, unified_df, summary,
                   err, exitErr, captured, notified, written, pre>>

\* unified_df.to_csv(processed_csv, index=False): the lines are written and the file closed
ToCsvWrite(r) ==
    /\ pc[r] = "to_csv_write"
    /\ file' = write_at_start(file, csv_lines(unified_df[r]))
    /\ Wrote(r, "file")
    /\ Goto(r, NextPc(pc[r]))
    /\ committer' = [committer EXCEPT !.file = r]
    /\ UNCHANGED <<raw, entry, table, report, log, pub_df, traf_df, unified_df, summary,
                   err, exitErr, captured, notified, pre>>

\* load_to_database(unified_df), the replacement of the table one transaction
LoadToDatabase(r) ==
    /\ pc[r] = "load_to_database"
    /\ table' = to_sql_replace(table, unified_df[r])
    /\ Wrote(r, "table")
    /\ Log(<<"Loading unified dataset into relational database",
             "Data loaded into database">>)
    /\ Goto(r, NextPc(pc[r]))
    /\ committer' = [committer EXCEPT !.table = r]
    /\ UNCHANGED <<raw, entry, file, report, pub_df, traf_df, unified_df, summary,
                   err, exitErr, captured, notified, pre>>

\* load_to_database(unified_df), DDL committed at once: the table is dropped and created
ToSqlDropCreate(r) ==
    /\ pc[r] = "load_to_database"
    /\ table' = to_sql_drop_create(table, unified_df[r])
    /\ Log(<<"Loading unified dataset into relational database">>)
    /\ Goto(r, "to_sql_insert")
    /\ UNCHANGED <<committer, raw, entry, file, report, pub_df, traf_df, unified_df, summary,
                   err, exitErr, captured, notified, written, pre>>

\* load_to_database(unified_df), DDL committed at once: the rows are inserted and committed
ToSqlInsert(r) ==
    /\ pc[r] = "to_sql_insert"
    /\ table' = to_sql_insert(table, unified_df[r])
    /\ Wrote(r, "table")
    /\ committer' = [committer EXCEPT !.table = r]
    /\ Log(<<"Data loaded into database">>)
    /\ Goto(r, NextPc(pc[r]))
    /\ UNCHANGED <<raw, entry, file, report, pub_df, traf_df, unified_df, summary,
                   err, exitErr, captured, notified, pre>>

\* create_summary_report: the groupby / mean / rename chain
SummaryGroupby(r) ==
    /\ pc[r] = "summary_groupby"
    /\ groupby_columns_present(unified_df[r])
    /\ summary' = [summary EXCEPT ![r] = summary_frame(unified_df[r])]
    /\ Log(<<"Creating summary report">>)
    /\ Goto(r, NextPc(pc[r]))
    /\ UNCHANGED <<committer, raw, entry, file, table, report, pub_df, traf_df, unified_df,
                   err, exitErr, captured, notified, written, pre>>

\* create_summary_report: groupby raises KeyError, a key column is not in the frame
SummaryKeyError(r) ==
    /\ pc[r] = "summary_groupby"
    /\ ~groupby_columns_present(unified_df[r])
    /\ Raise(r, "KeyError")
    /\ Log(<<"Creating summary report">>)
    /\ UNCHANGED <<committer, raw, entry, file, table, report, pub_df, traf_df, unified_df, summary,
                   exitErr, captured, notified, written, pre>>

\* summary.to_csv(out_path, index=False): the file is opened for writing
SummaryOpen(r) ==
    /\ pc[r] = "summary_open"
    /\ report' = open_truncate(report)
    /\ Goto(r, NextPc(pc[r]))
    /\ UNCHANGED <<committer, raw, entry, file, table, log, pub_df, traf_df, unified_df, summary,
                   err, exitErr, captured, notified, written, pre>>

\* summary.to_csv(out_path, index=False): the lines are written; run_pipeline returns
SummaryWrite(r) ==
    /\ pc[r] = "summary_write"
    /\ report' = write_at_start(report, csv_lines(summary[r]))
    /\ Wrote(r, "report")
    /\ Log(<<"Summary report written", "ETL pipeline completed successfully">>)
    /\ Goto(r, NextPc(pc[r]))
    /\ committer' = [committer EXCEPT !.report = r]
    /\ UNCHANGED <<raw, entry, file, table, pub_df, traf_df, unified_df, summary,
                   err, exitErr, captured, notified, pre>>

-----------------------------------------------------------------------------
(* Failures of the environment *)

\* requests.get / read_csv / open fails while a source is read
SourceUnavailable(r) ==
    /\ pc[r] \in {"read_public", "read_traffic"}
    /\ Raise(r, "SourceUnavailable")
    /\ Log(IF pc[r] = "read_public" THEN <<"Loading public transport data">>
                                     ELSE <<"Loading traffic sensor data">>)
    /\ UNCHANGED <<committer, raw, entry, file, table, report, pub_df, traf_df, unified_df,
                   summary, exitErr, captured, notified, written, pre>>

\* an exception nobody expects (MemoryError, ...) inside the cleaner or the joiner
StepRaises(r) ==
    /\ pc[r] \in {"clean_both", "join"}
    /\ Raise(r, "UnexpectedError")
    /\ UNCHANGED <<committer, raw, entry, file, table, report, log, pub_df, traf_df, unified_df,
                   summary, exitErr, captured, notified, written, pre>>

\* a destination cannot be opened, connected to or inserted into: it keeps what it
\* holds at that moment
SinkUnavailable(r) ==
    /\ pc[r] \in {"to_csv_open", "load_to_database", "to_sql_insert", "summary_open"}
    /\ Raise(r, "SinkWriteFailed")
    /\ Log(CASE pc[r] = "to_csv_open" -> <<"Saving cleaned unified dataset to CSV">>
              [] pc[r] = "load_to_database" ->
                    <<"Loading unified dataset into relational database">>
              [] OTHER -> <<>>)
    /\ UNCHANGED <<committer, raw, entry, file, table, report, pub_df, traf_df, unified_df,
                   summary, exitErr, captured, notified, written, pre>>

\* the write of the unified file fails part-way: a proper prefix of the lines is there
ToCsvWriteFails(r) ==
    /\ pc[r] = "to_csv_write"
    /\ \E n \in 0..Len(unified_df[r].rows) :
          file' = write_at_start(file, SubSeq(csv_lines(unified_df[r]), 1, n))
    /\ Raise(r, "SinkWriteFailed")
    /\ UNCHANGED <<committer, raw, entry, table, report, log, pub_df, traf_df, unified_df,
                   summary, exitErr, captured, notified, written, pre>>

\* the write of the report fails part-way: a proper prefix of the lines is there
SummaryWriteFails(r) ==
    /\ pc[r] = "summary_write"
    /\ \E n \in 0..Len(summary[r].rows) :
          report' = write_at_start(report, SubSeq(csv_lines(summary[r]), 1, n))
    /\ Raise(r, "SinkWriteFailed")
    /\ UNCHANGED <<committer, raw, entry, file, table, log, pub_df, traf_df, unified_df,
                   summary, exitErr, captured, notified, written, pre>>

\* the raw sources are replaced by newer data
UpdateRaw ==
    /\ raw' \in OverlapInputs \ {raw}
    /\ UNCHANGED <<committer, entry, file, table, report, log, pc, pub_df, traf_df, unified_df,
                   summary, err, exitErr, captured, notified, trace, written, pre>>

-----------------------------------------------------------------------------
(* What happens to an exception that leaves run_pipeline *)

SmtpStates == {"unset", "ok", "unreachable", "bad_port"}

\* the except block of __main__: log, read the tail, send_failure_email, re-raise
HandleFailure(r) ==
    /\ pc[r] = "except"
    /\ entry = "script"
    /\ \E tailReadable \in BOOLEAN, smtp \in SmtpStates :
          LET l1 == tail_of(log \o <<"ERROR ETL pipeline failed">>)
              tail == IF tailReadable THEN l1 ELSE <<err[r]>>
          IN  /\ captured' = [captured EXCEPT ![r] = [error |-> err[r], tail |-> tail]]
              /\ CASE smtp = "unset" ->
                        /\ log' = tail_of(l1 \o <<"Email not sent; SMTP or recipient env vars missing">>)
                        /\ notified' = [notified EXCEPT ![r] = "skipped"]
                        /\ exitErr' = [exitErr EXCEPT ![r] = err[r]]
                   [] smtp = "ok" ->
                        /\ log' = tail_of(l1 \o <<"Failure email sent">>)
                        /\ notified' = [notified EXCEPT ![r] = "sent"]
                        /\ exitErr' = [exitErr EXCEPT ![r] = err[r]]
                   [] smtp = "unreachable" ->
                        /\ log' = tail_of(l1 \o <<"WARNING Failed to send email">>)
                        /\ notified' = [notified EXCEPT ![r] = "failure_logged"]
                        /\ exitErr' = [exitErr EXCEPT ![r] = err[r]]
                   [] smtp = "bad_port" ->
                        /\ log' = l1
                        /\ notified' = [notified EXCEPT ![r] = "raised"]
                        /\ exitErr' = [exitErr EXCEPT ![r] = "ValueError: SMTP_PORT"]
    /\ Goto(r, "FAILED")
    /\ UNCHANGED <<committer, raw, entry, file, table, report, pub_df, traf_df, unified_df, summary,
                   err, written, pre>>

\* the Airflow task calls run_pipeline itself: the exception goes to the scheduler
PropagateToScheduler(r) ==
    /\ pc[r] = "except"
    /\ entry = "dag"
    /\ exitErr' = [exitErr EXCEPT ![r] = err[r]]
    /\ Goto(r, "FAILED")
    /\ UNCHANGED <<committer, raw, entry, file, table, report, log, pub_df, traf_df, unified_df,
                   summary, err, captured, notified, written, pre>>

-----------------------------------------------------------------------------
(* Specifications *)

\* the statements of a run that meets no failure
OkStep(r) ==
    \/ StartRun(r)
    \/ LoadPublic(r)
    \/ LoadTraffic(r)
    \/ CleanBoth(r)
    \/ Join(r)
    \/ ToCsvOpen(r)
    \/ ToCsvWrite(r)
    \/ LoadToDatabase(r)
    \/ ToSqlDropCreate(r)
    \/ ToSqlInsert(r)
    \/ SummaryGroupby(r)
    \/ SummaryOpen(r)
    \/ SummaryWrite(r)

\* the failures the inputs decide, and what follows a failure
FailStep(r) ==
    \/ LoadPublicSchemaViolation(r)
    \/ LoadTrafficSchemaViolation(r)
    \/ SummaryKeyError(r)
    \/ HandleFailure(r)
    \/ PropagateToScheduler(r)

\* the failures the environment decides
Fault(r) ==
    \/ SourceUnavailable(r)
    \/ StepRaises(r)
    \/ SinkUnavailable(r)
    \/ ToCsvWriteFails(r)
    \/ SummaryWriteFails(r)

Entries == {"script", "dag"}

\* one run, with every failure the environment can cause
Init == InitOn(PipelineInputs, Entries, PriorContents)
Next == OkStep(1) \/ FailStep(1) \/ Fault(1)
Spec == Init /\ [][Next]_vars

\* two runs one after the other on the same raw sources, the environment sound
NextRerun ==
    \/ OkStep(1) \/ FailStep(1)
    \/ (Terminated(1) /\ (OkStep(2) \/ FailStep(2)))
SpecRerun == Init /\ [][NextRerun]_vars

\* two runs the scheduler lets overlap, both of which complete
InitOverlap == InitOn(OverlapInputs, {"dag"}, {OldDests})
NextOverlap == (\E r \in Runs : OkStep(r)) \/ UpdateRaw
SpecOverlap == InitOverlap /\ [][NextOverlap]_vars

\* the reader, the cleaner and the joiner on a wide range of sources
InitStages == InitOn(StageInputs, {"script"}, {NoDests})
NextStages ==
    \/ StartRun(1)
    \/ LoadPublic(1) \/ LoadPublicSchemaViolation(1)
    \/ LoadTraffic(1) \/ LoadTrafficSchemaViolation(1)
    \/ CleanBoth(1)
    \/ Join(1)
SpecStages == InitStages /\ [][NextStages]_vars

-----------------------------------------------------------------------------
(* Properties *)

Range(s) == {s[i] : i \in 1..Len(s)}
IsPrefix(s, t) == Len(s) <= Len(t) /\ \A i \in 1..Len(s) : s[i] = t[i]

\* the required fields as the interface description lists them
DeclaredPublicFields == {"route_id", "city", "bus_stop", "ridership", "timing"}
DeclaredTrafficFields == {"route_id", "avg_speed", "congestion_index", "timestamp"}
HasRequiredFields ==
    /\ DeclaredPublicFields \subseteq raw.pub.columns
    /\ DeclaredTrafficFields \subseteq raw.traf.columns

DestinationsAsAtStart(r) ==
    /\ file = pre[r].file
    /\ table = pre[r].table
    /\ report = pre[r].report

\* C1: a run whose public or traffic source lacks a required field never gets past
\* reading the sources (no cleaning, no join, no completion) and writes none of the
\* three destinations, which stay as they were when the run started.
C1_SchemaFailFast ==
    \A r \in Runs :
        (~HasRequiredFields /\ pc[r] # "START") =>
            /\ Stage(pc[r]) \in {"read_sources", "FAILED"}
            /\ Range(trace[r]) \subseteq {"START", "read_sources", "FAILED"}
            /\ written[r] = <<>>
            /\ DestinationsAsAtStart(r)

\* a run that read a sound public source, met a traffic source without avg_speed and
\* ended FAILED, the destinations holding an older run's output
C1_Witness ==
    /\ pc[1] = "FAILED"
    /\ err[1] = "ValueError"
    /\ DeclaredPublicFields \subseteq raw.pub.columns
    /\ "avg_speed" \notin raw.traf.columns
    /\ Len(trace[1]) = 3
    /\ file # <<>>

\* C2: every run that ends FAILED has had the triggering error and a log tail captured
\* and the notification invoked, the notification has not raised, and the run ends
\* with the error that made it fail.
C2_FailureAlwaysNotified ==
    \A r \in Runs :
        pc[r] = "FAILED" =>
            /\ notified[r] \in {"skipped", "sent", "failure_logged"}
            /\ captured[r].error = err[r]
            /\ exitErr[r] = err[r]

LinearOrder == <<"START", "read_sources", "clean_both", "join", "persist", "DONE">>

\* C3: the stages a run has entered are an initial part of START, read_sources,
\* clean_both, join, persist, DONE, each entered once, or such a part short of DONE
\* followed by FAILED and nothing else; the run is in the last stage it entered.
C3_LinearStages ==
    \A r \in Runs :
        LET t == trace[r]
            n == Len(t)
        IN  /\ t[n] = Stage(pc[r])
            /\ \/ IsPrefix(t, LinearOrder)
               \/ /\ n >= 2
                  /\ t[n] = "FAILED"
                  /\ IsPrefix(SubSeq(t, 1, n - 1), LinearOrder)
                  /\ t[n - 1] # "DONE"

\* a run that went through every stage to DONE
C3_Witness == pc[1] = "DONE" /\ trace[1] = LinearOrder /\ Len(written[1]) = 3

HourFloor(t) == t - (t % 60)

\* public row p and traffic row t of the cleaned frames belong together
JoinPartners(p, t) ==
    /\ p.route_id = t.route_id
    /\ HourFloor(p.timestamp.t) = HourFloor(t.timestamp.t)

\* unified row u is the row made of public row p and traffic row t
MadeOf(u, p, t) ==
    /\ u.route_id = p.route_id
    /\ u.route_id = t.route_id
    /\ u.bus_stop = p.bus_stop
    /\ u.ridership = p.ridership
    /\ u.timestamp_public = p.timestamp
    /\ u.timestamp_traffic = t.timestamp
    /\ u.avg_speed = t.avg_speed
    /\ u.congestion_index = t.congestion_index
    /\ u.event_hour = Ts(HourFloor(p.timestamp.t))
    /\ u.event_hour = Ts(HourFloor(t.timestamp.t))
    /\ IF "city" \in DOMAIN t THEN u.city_public = p.city /\ u.city_traffic = t.city
       ELSE u.city = p.city

TimeParses(c) == c.k = "str" /\ c.s \in DOMAIN TimeTable
NumberCoerces(c) == c.k = "num" \/ (c.k = "str" /\ c.s \in DOMAIN NumTable)
TimeOf(c) == Ts(TimeTable[c.s])
NumberOf(c) == IF c.k = "num" THEN c ELSE Num(NumTable[c.s])

\* the indices idx in increasing order
InOrder(idx) ==
    LET nth(k) == CHOOSE i \in idx : Cardinality({j \in idx : j <= i}) = k
    IN  [k \in 1..Cardinality(idx) |-> nth(k)]

\* C6: once the cleaner has run, each cleaned frame is the subsequence, in input order,
\* of the raw records whose time field parses and whose numeric fields all coerce, every
\* survivor carrying the parsed time and the coerced numbers and none of them a null.
C6_CleanerKeepsExactlyTheValidRecords ==
    pc[1] = "join" =>
        LET goodPub(r) == TimeParses(r.timing) /\ NumberCoerces(r.ridership)
            goodTraf(r) == /\ TimeParses(r.timestamp)
                           /\ NumberCoerces(r.avg_speed)
                           /\ NumberCoerces(r.congestion_index)
            sp == InOrder({i \in 1..Len(raw.pub.rows) : goodPub(raw.pub.rows[i])})
            st == InOrder({i \in 1..Len(raw.traf.rows) : goodTraf(raw.traf.rows[i])})
            P == pub_df[1].rows
            T == traf_df[1].rows
        IN  /\ Len(P) = Len(sp)
            /\ \A k \in 1..Len(P) :
                  LET in == raw.pub.rows[sp[k]]
                  IN  /\ P[k].route_id = in.route_id
                      /\ P[k].city = in.city
                      /\ P[k].bus_stop = in.bus_stop
                      /\ P[k].timestamp = TimeOf(in.timing)
                      /\ P[k].ridership = NumberOf(in.ridership)
            /\ Len(T) = Len(st)
            /\ \A k \in 1..Len(T) :
                  LET in == raw.traf.rows[st[k]]
                  IN  /\ T[k].route_id = in.route_id
                      /\ T[k].timestamp = TimeOf(in.timestamp)
                      /\ T[k].avg_speed = NumberOf(in.avg_speed)
                      /\ T[k].congestion_index = NumberOf(in.congestion_index)

\* a public source whose first record is dropped and second kept, and a traffic source
\* whose first record is kept and second dropped for its missing congestion index
C6_Witness ==
    /\ pc[1] = "join"
    /\ Len(raw.pub.rows) = 2
    /\ Len(pub_df[1].rows) = 1
    /\ pub_df[1].rows[1].route_id = raw.pub.rows[2].route_id
    /\ raw.pub.rows[1].route_id # raw.pub.rows[2].route_id
    /\ Len(raw.traf.rows) = 2
    /\ Len(traf_df[1].rows) = 1
    /\ isna(raw.traf.rows[2].congestion_index)

EnvironmentFaults == {"SourceUnavailable", "SinkWriteFailed", "UnexpectedError"}

\* C7: a run on sources that carry every required field, in an environment that does
\* not fail, never enters FAILED.
C7_RowExclusionsNeverFatal ==
    \A r \in Runs :
        (HasRequiredFields /\ err[r] \notin EnvironmentFaults) => Stage(pc[r]) # "FAILED"

DeclaredUnifiedColumns ==
    {"route_id", "city_public", "bus_stop", "ridership", "event_hour", "avg_speed",
     "congestion_index", "timestamp_public", "timestamp_traffic"}

\* C8: in the persist step of a run on sources that carry every required field, the
\* unified table has the declared columns, and so has the relational table once written.
C8_UnifiedColumns ==
    \A r \in Runs :
        (HasRequiredFields /\ "persist" \in Range(trace[r])) =>
            /\ DeclaredUnifiedColumns \subseteq unified_df[r].columns
            /\ "table" \in Range(written[r]) => DeclaredUnifiedColumns \subseteq table.columns

\* C9: when both of two overlapping runs have completed, each destination holds exactly
\* the output of the run whose write to it committed last.
C9_LastCommitWins ==
    (pc[1] = "DONE" /\ pc[2] = "DONE") =>
        /\ file = csv_lines(unified_df[committer.file])
        /\ table = unified_df[committer.table]
        /\ report = csv_lines(summary[committer.report])

DestOrder == <<"file", "table", "report">>

Holds(dest) ==
    CASE dest = "file" -> file
      [] dest = "table" -> table
      [] dest = "report" -> report

Output(r, dest) ==
    CASE dest = "file" -> csv_lines(unified_df[r])
      [] dest = "table" -> unified_df[r]
      [] dest = "report" -> csv_lines(summary[r])

\* C10: a run writes the destinations in the order file, table, report; a destination
\* it has written holds the run's output, also after a later write has failed; and when
\* the run has failed, every destination after the one whose write failed is as it
\* was when the run started.
C10_PersistOrderAndPartialWrites ==
    \A r \in Runs :
        /\ IsPrefix(written[r], DestOrder)
        /\ \A i \in 1..Len(DestOrder) :
              /\ i <= Len(written[r]) => Holds(DestOrder[i]) = Output(r, DestOrder[i])
              /\ (Stage(pc[r]) = "FAILED" /\ i > Len(written[r]) + 1) =>
                     Holds(DestOrder[i]) = pre[r][DestOrder[i]]

\* the table write failed after the unified file had been replaced: the file is new,
\* the report is the older run's
C10_Witness ==
    /\ pc[1] = "FAILED"
    /\ err[1] = "SinkWriteFailed"
    /\ written[1] = <<"file">>
    /\ pre[1] = OldDests
    /\ file # pre[1].file
    /\ Len(file) > 1
    /\ table = pre[1].table
    /\ report = pre[1].report

====
